---- MODULE Spec2Model ----
(***************************************************************************)
(* The wildlife monitoring repository, ml-model/scripts.                   *)
(*                                                                         *)
(* Browser side: the WildlifeDetector class that simple_model_optimizer.py *)
(* writes to wildlife-detector.js, and the demo pages that                 *)
(* simple_model_optimizer.py and convert_and_optimize.py write to          *)
(* demo.html (RankSpec, RepeatSpec, Spec).                                 *)
(*                                                                         *)
(* Python side: the runs of the six scripts and the files they leave on    *)
(* disk (ScriptSpec, ScriptFairSpec).                                      *)
(*                                                                         *)
(* Probabilities are carried in hundredths (70 stands for 0.70), and so    *)
(* are the confidence thresholds of metadata.json.                         *)
(***************************************************************************)
EXTENDS Integers, Sequences, FiniteSets, Bags, TLC

VARIABLES
    page,            \* who drives the code: "none" (a script that calls the
                     \* detector), "simple" (demo.html of simple_model_optimizer)
                     \* or "convert" (demo.html of convert_and_optimize)
    model,           \* this.model (the global model of the convert page), or Null
    metadata,        \* this.metadata (the global metadata of the convert page)
    isLoaded,        \* this.isLoaded
    loading,         \* the loadModel call in flight and the await it is at, or Null
    pending,         \* bag of the predict calls awaiting the data of their inference
    modelLoaded,     \* the flag modelLoaded of the simple page
    results,         \* the innerHTML of the element "results"
    imageContainer,  \* the <img src=...> in the element "imageContainer", or Null
    predictions,     \* the class probabilities handed to the ranking step, when
                     \* the step is taken on its own (RankSpec)
    topK,            \* the topK handed to the ranking step, likewise
    returned,        \* what the call that ended last returned or threw (a
                     \* method of the detector, or a function of a script)
    successfulLoad,  \* history: a loadModel has returned true, and dispose has
                     \* not been called since
    clock,           \* the time performance.now() and new Date() read, in ms
    calls,           \* history: the predict calls that have returned, in order
    script,          \* the Python script that runs, or "none"
    pc,              \* where the script is
    fs,              \* the files and directories on disk: path |-> content
    self             \* the fields of the object the script has constructed

vars == <<page, model, metadata, isLoaded, loading, pending, modelLoaded,
          results, imageContainer, predictions, topK, returned, successfulLoad,
          clock, calls, script, pc, fs, self>>

\* The state of the browser: the detector and the page that uses it.
detectorVars == <<page, model, metadata, isLoaded, loading, pending, modelLoaded,
                  results, imageContainer, predictions, topK, returned,
                  successfulLoad>>

\* The clock of the browser and the history of the calls.
timeVars == <<clock, calls>>

\* The state of a run of one of the Python scripts.
scriptVars == <<script, pc, fs, self>>

(***************************************************************************)
(* Bounds of the model.                                                    *)
(***************************************************************************)
\* Largest number of output classes of a model (length of a probability vector).
MaxClasses == 3

\* The probability values an entry of the vector may take, in hundredths.
ProbValues == {10, 20, 45, 65, 70, 85}

\* The topK arguments tried: non-positive, in range, and beyond the vector.
TopKValues == -1 .. (MaxClasses + 1)

(***************************************************************************)
(* JavaScript values.                                                      *)
(***************************************************************************)
Null == [null |-> TRUE]

Undefined == [undefined |-> TRUE]

NoReturn == [op |-> "none", status |-> "running"]

\* The element "results" before any script has written to it.
EmptyPanel == [kind |-> "empty", entries |-> <<>>]

\* ToBoolean of a string: the empty string is the one falsy string.
Truthy(str) == str # ""

(***************************************************************************)
(* metadata.json as the scripts write it.                                  *)
(***************************************************************************)
\* f"Species_{i:03d}": the index, padded with zeros to three digits.
DefaultSpeciesName(i) ==
    IF i < 10 THEN "Species_00" \o ToString(i)
    ELSE IF i < 100 THEN "Species_0" \o ToString(i)
    ELSE "Species_" \o ToString(i)

\* {str(i): f"Species_{i:03d}" for i in range(n)}
DefaultSpeciesMapping(n) == [i \in 0 .. (n - 1) |-> DefaultSpeciesName(i)]

\* The confidence_thresholds the optimizers write when the input has none.
DefaultThresholds ==
    [high_confidence |-> 85, medium_confidence |-> 65, low_confidence |-> 45]

\* The confidence_thresholds the enhanced trainer writes.
TrainerThresholds ==
    [high_confidence |-> 90, medium_confidence |-> 75, low_confidence |-> 60]

\* create_optimized_metadata copies the thresholds of the input metadata
\* unchanged, whatever they are: a set of values that is not ordered.
PassedThroughThresholds ==
    [high_confidence |-> 45, medium_confidence |-> 70, low_confidence |-> 85]

ThresholdChoices == {DefaultThresholds, TrainerThresholds, PassedThroughThresholds}

\* The species mappings a metadata.json may carry: the first n indices named
\* (fewer, as many or more than the model has classes), a mapping whose keys
\* start at 1, and a mapping copied from an input that names one class ""
\* and leaves the last class out.
SpeciesMappingChoices ==
    { DefaultSpeciesMapping(n) : n \in 0 .. MaxClasses }
    \cup { [i \in 1 .. (MaxClasses - 1) |-> DefaultSpeciesName(i)] }
    \cup { [DefaultSpeciesMapping(MaxClasses - 1) EXCEPT ![1] = ""] }

MetadataChoices ==
    { [species_mapping |-> m, confidence_thresholds |-> t] :
        m \in SpeciesMappingChoices, t \in ThresholdChoices }

\* The outputs of a model: one probability per class, for 1..MaxClasses classes.
ProbabilityVectors ==
    UNION { [1 .. n -> ProbValues] : n \in 1 .. MaxClasses }

(***************************************************************************)
(* WildlifeDetector.predict, the ranking step (after the inference).       *)
(***************************************************************************)
\* Math.round(p * 100) of a probability carried in hundredths.
Confidence(p) == p

\* The lookup with a placeholder that counts the classes from 1.
SpeciesNameOneBased(species_mapping, i) ==
    IF i \in DOMAIN species_mapping /\ Truthy(species_mapping[i])
    THEN species_mapping[i]
    ELSE "Species " \o ToString(i + 1)

\* this.metadata.species_mapping[i] || `Species ${i}`
SpeciesName(species_mapping, i) ==
    IF i \in DOMAIN species_mapping /\ Truthy(species_mapping[i])
    THEN species_mapping[i]
    ELSE "Species " \o ToString(i)

\* Array.from(predictions).map((p, i) => ({index, probability, species, confidence}))
Indexed(data, species_mapping) ==
    [k \in 1 .. Len(data) |->
        [index       |-> k - 1,
         probability |-> data[k],
         species     |-> SpeciesName(species_mapping, k - 1),
         confidence  |-> Confidence(data[k])]]

\* The comparator with its operands exchanged: an ascending sort.
CompareAscending(a, b) == a.probability - b.probability

\* The comparator (a, b) => b.probability - a.probability.
Compare(a, b) == b.probability - a.probability

\* An insertion that also passes the elements equal to x: a sort that is not
\* stable, and puts the later of two equal entries first.
RECURSIVE InsertSortedUnstable(_, _)
InsertSortedUnstable(x, s) ==
    IF s = <<>> THEN <<x>>
    ELSE IF Compare(x, Head(s)) <= 0
         THEN <<x>> \o s
         ELSE <<Head(s)>> \o InsertSortedUnstable(x, Tail(s))

\* Insert x into the sorted sequence s behind every element it does not have to
\* precede: Array.prototype.sort is stable, so x passes only the elements the
\* comparator puts strictly after it.
RECURSIVE InsertSorted(_, _)
InsertSorted(x, s) ==
    IF s = <<>> THEN <<x>>
    ELSE IF Compare(x, Head(s)) < 0
         THEN <<x>> \o s
         ELSE <<Head(s)>> \o InsertSorted(x, Tail(s))

\* indexed.sort(comparator): the elements are inserted in their original order.
RECURSIVE SortFrom(_, _)
SortFrom(s, sorted) ==
    IF s = <<>> THEN sorted
    ELSE SortFrom(Tail(s), InsertSorted(Head(s), sorted))

Sort(s) == SortFrom(s, <<>>)

\* Array.prototype.slice(0, end): a negative end counts from the end of the
\* array, and the result never runs past the array.
SliceFromStart(s, end) ==
    LET len   == Len(s)
        final == IF end < 0
                 THEN (IF len + end > 0 THEN len + end ELSE 0)
                 ELSE (IF end < len THEN end ELSE len)
    IN  SubSeq(s, 1, final)

\* The chain with its first two tests in the other order.
ConfidenceLevelMediumFirst(p, confidence_thresholds) ==
    IF p >= confidence_thresholds.medium_confidence THEN "medium"
    ELSE IF p >= confidence_thresholds.high_confidence THEN "high"
    ELSE "low"

\* The if / else-if / else chain that adds confidenceLevel to a prediction.
ConfidenceLevel(p, confidence_thresholds) ==
    IF p >= confidence_thresholds.high_confidence THEN "high"
    ELSE IF p >= confidence_thresholds.medium_confidence THEN "medium"
    ELSE "low"

\* topPredictions.forEach(pred => { pred.confidenceLevel = ... })
WithConfidenceLevel(preds, confidence_thresholds) ==
    [k \in 1 .. Len(preds) |->
        [index           |-> preds[k].index,
         probability     |-> preds[k].probability,
         species         |-> preds[k].species,
         confidence      |-> preds[k].confidence,
         confidenceLevel |-> ConfidenceLevel(preds[k].probability, confidence_thresholds)]]

\* The ranking step of a detector that keeps the entries of its last result
\* and ranks the new ones together with them.
RankResultKeepingEntries(data, md, k) ==
    LET kept           == IF returned.op = "predict" /\ returned.status = "returned"
                          THEN returned.predictions ELSE <<>>
        indexed        == kept \o Indexed(data, md.species_mapping)
        topPredictions == WithConfidenceLevel(SliceFromStart(Sort(indexed), k),
                                              md.confidence_thresholds)
    IN  [op            |-> "predict",
         status        |-> "returned",
         predictions   |-> topPredictions,
         topPrediction |-> IF Len(topPredictions) > 0 THEN topPredictions[1]
                           ELSE Undefined]

\* Lines 217-247: index, sort, slice, label, and build the returned object.
\* No step of it checks topK or the length of the vector; nothing is thrown.
RankResult(data, md, k) ==
    LET indexed        == Indexed(data, md.species_mapping)
        topPredictions == WithConfidenceLevel(SliceFromStart(Sort(indexed), k),
                                              md.confidence_thresholds)
    IN  [op            |-> "predict",
         status        |-> "returned",
         predictions   |-> topPredictions,
         topPrediction |-> IF Len(topPredictions) > 0 THEN topPredictions[1]
                           ELSE Undefined]

(***************************************************************************)
(* The ranking step on its own: every metadata, vector and topK.           *)
(***************************************************************************)
\* The page has just been opened: the clock starts, and nothing has returned.
NoHistory == clock = 0 /\ calls = <<>>

\* No Python script runs next to the browser.
NoScript == script = "none" /\ pc = "done" /\ fs = <<>> /\ self = Null

\* A loaded detector whose inference has delivered its data.
RankInit ==
    /\ page = "none"
    /\ metadata \in MetadataChoices
    /\ predictions \in ProbabilityVectors
    /\ topK \in TopKValues
    /\ model = [path |-> "./", classes |-> Len(predictions), disposed |-> FALSE]
    /\ isLoaded = TRUE
    /\ loading = Null
    /\ pending = EmptyBag
    /\ modelLoaded = FALSE
    /\ results = EmptyPanel
    /\ imageContainer = Null
    /\ returned = NoReturn
    /\ successfulLoad = TRUE
    /\ NoHistory
    /\ NoScript

Rank ==
    /\ returned = NoReturn
    /\ returned' = RankResult(predictions, metadata, topK)
    /\ UNCHANGED <<page, model, metadata, isLoaded, loading, pending, modelLoaded,
                   results, imageContainer, predictions, topK,
                   successfulLoad>>
    /\ UNCHANGED <<timeVars, scriptVars>>

RankNext == Rank

RankSpec == RankInit /\ [][RankNext]_vars

(***************************************************************************)
(* The detector in use: a script that calls it, or one of the demo pages.  *)
(***************************************************************************)
\* Largest number of predict calls awaiting their data at one time.
MaxPending == 2

\* Number of images a user or a script has at hand.
MaxImages == 2

Images == 1 .. MaxImages

\* An image that tf.browser.fromPixels cannot read: preprocessImage throws.
BrokenImage == 0

\* topK = 5, the default of predict and the value the simple page passes.
TopKDefault == 5

\* The number of entries the convert page keeps: indexed.slice(0, 3).
ConvertTopK == 3

\* The topK a script passes: it calls predict(imageElement), as the README shows.
ScriptTopK == {TopKDefault}

\* The directories a detector is pointed at: the output of the optimizer (the
\* directory of the demo pages), the models directory of the enhanced trainer,
\* and a model directory written by create_compatible_model.
ModelPaths == {"./", "./models/", "./compatible/"}

\* The number of output classes of the model.json under a path.
ServedClasses(path) == IF path = "./models/" THEN MaxClasses - 1 ELSE MaxClasses

\* The metadata.json under a path.  create_compatible_model writes the names
\* as a list "species": its metadata has neither species_mapping nor
\* confidence_thresholds.
ServedMetadata(path) ==
    CASE path = "./" ->
           [species_mapping       |-> DefaultSpeciesMapping(MaxClasses),
            confidence_thresholds |-> DefaultThresholds]
      [] path = "./models/" ->
           [species_mapping       |-> DefaultSpeciesMapping(MaxClasses - 1),
            confidence_thresholds |-> TrainerThresholds]
      [] path = "./compatible/" ->
           [species |-> [i \in 0 .. (MaxClasses - 1) |-> DefaultSpeciesName(i)]]

\* The probabilities a network computes, one after the other.
ProbCycle == <<10, 70, 20, 85, 45, 65>>

\* model.predict(preprocessed).data(): a function of the image and the model.
ModelOutput(image, classes) ==
    [k \in 1 .. classes |->
        ProbCycle[(((image - 1) * 2 + (k - 1)) % Len(ProbCycle)) + 1]]

\* Reading metadata.species_mapping[i] throws a TypeError when metadata is
\* undefined or has no species_mapping; reading confidence_thresholds.x throws
\* when a prediction is labelled and metadata has no confidence_thresholds.
RankThrows(data, md, k) ==
    \/ md = Null
    \/ md = Undefined
    \/ Len(data) > 0 /\ "species_mapping" \notin DOMAIN md
    \/ /\ Len(SliceFromStart(data, k)) > 0
       /\ "confidence_thresholds" \notin DOMAIN md

Threw(op, error) == [op |-> op, status |-> "threw", error |-> error]

Returned(op, value) == [op |-> op, status |-> "returned", value |-> value]

\* The part of predict behind the await: rank the data and return, or throw.
PredictOutcome(data, md, k) ==
    IF RankThrows(data, md, k) THEN Threw("predict", "TypeError")
    ELSE RankResult(data, md, k)

\* The part of predict before the await: the isLoaded guard, preprocessImage
\* and the call of model.predict, which throws on a disposed model.
PredictGuard(image) ==
    IF ~isLoaded THEN "Model not loaded yet!"
    ELSE IF image = BrokenImage \/ model = Null THEN "InferenceError"
    ELSE IF model.disposed THEN "InferenceError"
    ELSE "ok"

PredictCall(image, k) ==
    [image |-> image, topK |-> k, classes |-> model.classes]

(***************************************************************************)
(* The panels a page writes to the element "results".                      *)
(***************************************************************************)
LoadingPanel == [kind |-> "loading", entries |-> <<>>]

\* The error message added behind what the panel shows (innerHTML +=).
PredictionErrorAppended == [kind |-> "error", entries |-> results.entries]

\* "Error during prediction", the catch of predict of either page.
PredictionErrorPanel == [kind |-> "error", entries |-> <<>>]

\* "Model loaded and ready!" and "Error loading model" of the convert page.
ReadyPanel == [kind |-> "ready", entries |-> <<>>]

LoadErrorPanel == [kind |-> "loadError", entries |-> <<>>]

\* result.predictions.forEach of the simple page: one item per prediction.
ResultsPanel(result) ==
    [kind    |-> "results",
     entries |-> [k \in 1 .. Len(result.predictions) |->
                    [rank            |-> k,
                     species         |-> result.predictions[k].species,
                     confidence      |-> result.predictions[k].confidence,
                     confidenceLevel |-> result.predictions[k].confidenceLevel]]]

\* The predict of the convert page behind its await: index, sort, keep three.
ConvertTop3(data) ==
    SliceFromStart(
        Sort([k \in 1 .. Len(data) |-> [index |-> k - 1, probability |-> data[k]]]),
        ConvertTopK)

\* top3.forEach of the convert page: the name is looked up when it is shown.
ConvertResultsPanel(top3, md) ==
    [kind    |-> "results",
     entries |-> [k \in 1 .. Len(top3) |->
                    [rank       |-> k,
                     species    |-> SpeciesName(md.species_mapping, top3[k].index),
                     confidence |-> Confidence(top3[k].probability)]]]

(***************************************************************************)
(* Construction.                                                           *)
(***************************************************************************)
\* new WildlifeDetector() in a script; a demo page has also started to load
\* the model of its own directory when its script has run.
Init ==
    /\ page \in {"none", "simple", "convert"}
    /\ model = Null
    /\ metadata = IF page = "convert" THEN Undefined ELSE Null
    /\ isLoaded = FALSE
    /\ loading = IF page = "none" THEN Null ELSE [path |-> "./", at |-> "model"]
    /\ pending = EmptyBag
    /\ modelLoaded = FALSE
    /\ results = EmptyPanel
    /\ imageContainer = Null
    /\ predictions = <<>>
    /\ topK = TopKDefault
    /\ returned = NoReturn
    /\ successfulLoad = FALSE
    /\ NoHistory
    /\ NoScript

(***************************************************************************)
(* WildlifeDetector.loadModel, and initializeModel of the simple page.     *)
(***************************************************************************)
\* A script calls loadModel(path); it awaits the call before it loads again.
LoadModel(path) ==
    /\ page = "none"
    /\ loading = Null
    /\ loading' = [path |-> path, at |-> "model"]
    /\ UNCHANGED <<page, model, metadata, isLoaded, pending, modelLoaded, results,
                   imageContainer, predictions, topK, returned,
                   successfulLoad>>
    /\ UNCHANGED <<timeVars, scriptVars>>

\* tf.loadLayersModel resolves: this.model is assigned and metadata.json is
\* fetched.
LoadModelFetched ==
    /\ page \in {"none", "simple"}
    /\ loading # Null
    /\ loading.at = "model"
    /\ model' = [path     |-> loading.path,
                 classes  |-> ServedClasses(loading.path),
                 disposed |-> FALSE]
    /\ loading' = [loading EXCEPT !.at = "metadata"]
    /\ UNCHANGED <<page, metadata, isLoaded, pending, modelLoaded, results,
                   imageContainer, predictions, topK, returned,
                   successfulLoad>>
    /\ UNCHANGED <<timeVars, scriptVars>>

\* tf.loadLayersModel or the fetch of metadata.json rejects: the catch returns
\* false, and initializeModel of the simple page reports the failure.
LoadModelFailed ==
    /\ page \in {"none", "simple"}
    /\ loading # Null
    /\ loading' = Null
    /\ returned' = Returned("loadModel", FALSE)
    /\ UNCHANGED <<page, model, metadata, isLoaded, pending, modelLoaded, results,
                   imageContainer, predictions, topK,
                   successfulLoad>>
    /\ UNCHANGED <<timeVars, scriptVars>>

\* response.json() resolves: metadata and isLoaded are assigned, and the count
\* of species is logged.  Object.keys(this.metadata.species_mapping) throws on
\* a metadata without species_mapping: the catch then returns false, after
\* isLoaded has been set.  The simple page sets modelLoaded on true.
LoadModelDone ==
    /\ page \in {"none", "simple"}
    /\ loading # Null
    /\ loading.at = "metadata"
    /\ metadata' = ServedMetadata(loading.path)
    /\ isLoaded' = TRUE
    /\ loading' = Null
    /\ LET success == "species_mapping" \in DOMAIN ServedMetadata(loading.path)
       IN  /\ returned' = Returned("loadModel", success)
           /\ modelLoaded' = IF page = "simple" /\ success THEN TRUE ELSE modelLoaded
           /\ successfulLoad' = (successfulLoad \/ success)
    /\ UNCHANGED <<page, model, pending, results, imageContainer, predictions, topK>>
    /\ UNCHANGED <<timeVars, scriptVars>>

(***************************************************************************)
(* WildlifeDetector.preprocessImage, predict and dispose, from a script.   *)
(***************************************************************************)
PreprocessImage(image) ==
    /\ page = "none"
    /\ returned' =
         IF ~isLoaded THEN Threw("preprocessImage", "Model not loaded yet!")
         ELSE IF image = BrokenImage THEN Threw("preprocessImage", "InferenceError")
         ELSE Returned("preprocessImage", image)
    /\ UNCHANGED <<page, model, metadata, isLoaded, loading, pending, modelLoaded,
                   results, imageContainer, predictions, topK,
                   successfulLoad>>
    /\ UNCHANGED <<timeVars, scriptVars>>

\* predict(image, k) up to its await.
Predict(image, k) ==
    /\ page = "none"
    /\ BagCardinality(pending) < MaxPending
    /\ IF PredictGuard(image) = "ok"
       THEN /\ pending' = pending (+) SetToBag({PredictCall(image, k)})
            /\ UNCHANGED returned
       ELSE /\ returned' = Threw("predict", PredictGuard(image))
            /\ UNCHANGED pending
    /\ UNCHANGED <<page, model, metadata, isLoaded, loading, modelLoaded, results,
                   imageContainer, predictions, topK,
                   successfulLoad>>
    /\ UNCHANGED <<timeVars, scriptVars>>

\* The data of an inference arrives: predict ranks it with the metadata the
\* detector holds now, and returns or throws.
PredictReturn(call) ==
    /\ page = "none"
    /\ BagIn(call, pending)
    /\ pending' = pending (-) SetToBag({call})
    /\ returned' = PredictOutcome(ModelOutput(call.image, call.classes), metadata,
                                  call.topK)
    /\ UNCHANGED <<page, model, metadata, isLoaded, loading, modelLoaded, results,
                   imageContainer, predictions, topK,
                   successfulLoad>>
    /\ UNCHANGED <<timeVars, scriptVars>>

\* The promise of data() rejects (the backend has lost its context).
PredictFail(call) ==
    /\ page = "none"
    /\ BagIn(call, pending)
    /\ pending' = pending (-) SetToBag({call})
    /\ returned' = Threw("predict", "InferenceError")
    /\ UNCHANGED <<page, model, metadata, isLoaded, loading, modelLoaded, results,
                   imageContainer, predictions, topK,
                   successfulLoad>>
    /\ UNCHANGED <<timeVars, scriptVars>>

\* dispose() of a detector that also drops its metadata.
DisposeDroppingMetadata ==
    /\ page = "none"
    /\ model' = IF model # Null THEN [model EXCEPT !.disposed = TRUE] ELSE model
    /\ isLoaded' = FALSE
    /\ metadata' = Null
    /\ returned' = Returned("dispose", Undefined)
    /\ successfulLoad' = FALSE
    /\ UNCHANGED <<page, loading, pending, modelLoaded, results,
                   imageContainer, predictions, topK>>
    /\ UNCHANGED <<timeVars, scriptVars>>

Dispose ==
    /\ page = "none"
    /\ model' = IF model # Null THEN [model EXCEPT !.disposed = TRUE] ELSE model
    /\ isLoaded' = FALSE
    /\ returned' = Returned("dispose", Undefined)
    /\ successfulLoad' = FALSE
    /\ UNCHANGED <<page, metadata, loading, pending, modelLoaded, results,
                   imageContainer, predictions, topK>>
    /\ UNCHANGED <<timeVars, scriptVars>>

(***************************************************************************)
(* WildlifeDetector.getSpeciesInfo.                                        *)
(***************************************************************************)
\* The names a script asks about: one the default metadata has, and one that
\* no metadata has.
SpeciesNames == {DefaultSpeciesName(0), "Snow Leopard"}

\* Object.entries(species_mapping).find(([index, name]) => name === speciesName):
\* the entries of integer-like keys come in ascending order.
SpeciesIndex(species_mapping, speciesName) ==
    LET found == { i \in DOMAIN species_mapping : species_mapping[i] = speciesName }
    IN  IF found = {} THEN Undefined
        ELSE [key |-> CHOOSE i \in found : \A j \in found : i <= j]

\* The category whose list includes the index; a metadata without
\* detection_categories has none to offer.
Category(md, speciesIndex) ==
    IF "detection_categories" \in DOMAIN md
    THEN LET cats == { c \in DOMAIN md.detection_categories :
                         speciesIndex.key \in md.detection_categories[c] }
         IN  IF cats = {} THEN "unknown" ELSE CHOOSE c \in cats : TRUE
    ELSE "unknown"

\* getSpeciesInfo(speciesName): reads this.metadata, and writes nothing.  It
\* throws a TypeError on a detector without metadata, and on a metadata without
\* species_mapping.
GetSpeciesInfo(speciesName) ==
    /\ page = "none"
    /\ returned' =
         IF metadata = Null \/ "species_mapping" \notin DOMAIN metadata
         THEN Threw("getSpeciesInfo", "TypeError")
         ELSE LET speciesIndex == SpeciesIndex(metadata.species_mapping, speciesName)
              IN  IF speciesIndex = Undefined
                  THEN Returned("getSpeciesInfo", Null)
                  ELSE Returned("getSpeciesInfo",
                                [index    |-> speciesIndex.key,
                                 name     |-> speciesName,
                                 category |-> Category(metadata, speciesIndex)])
    /\ UNCHANGED <<page, model, metadata, isLoaded, loading, pending, modelLoaded,
                   results, imageContainer, predictions, topK, successfulLoad>>
    /\ UNCHANGED <<timeVars, scriptVars>>

(***************************************************************************)
(* demo.html of simple_model_optimizer: predict(imageElement) of the page. *)
(***************************************************************************)
\* img.onload of an uploaded image: the image is shown and predict(img) runs
\* up to its await.  Without modelLoaded it alerts and returns.  The throw of
\* detector.predict before its await lands in the catch of the page at once.
SimpleUpload(image) ==
    /\ page = "simple"
    /\ BagCardinality(pending) < MaxPending
    /\ imageContainer' = [src |-> image]
    /\ IF ~modelLoaded
       THEN UNCHANGED <<results, pending, returned>>
       ELSE IF PredictGuard(image) = "ok"
            THEN /\ results' = LoadingPanel
                 /\ pending' = pending (+) SetToBag({PredictCall(image, TopKDefault)})
                 /\ UNCHANGED returned
            ELSE /\ results' = PredictionErrorPanel
                 /\ returned' = Threw("predict", PredictGuard(image))
                 /\ UNCHANGED pending
    /\ UNCHANGED <<page, model, metadata, isLoaded, loading, modelLoaded,
                   predictions, topK,
                   successfulLoad>>
    /\ UNCHANGED <<timeVars, scriptVars>>

\* The data arrives: detector.predict returns or throws, and the page writes
\* the list of the result, or the error message, to the element "results".
SimplePredictReturn(call) ==
    /\ page = "simple"
    /\ BagIn(call, pending)
    /\ pending' = pending (-) SetToBag({call})
    /\ LET outcome == PredictOutcome(ModelOutput(call.image, call.classes), metadata,
                                     call.topK)
       IN  /\ returned' = outcome
           /\ results' = IF outcome.status = "returned" THEN ResultsPanel(outcome)
                         ELSE PredictionErrorPanel
    /\ UNCHANGED <<page, model, metadata, isLoaded, loading, modelLoaded,
                   imageContainer, predictions, topK,
                   successfulLoad>>
    /\ UNCHANGED <<timeVars, scriptVars>>

\* The promise of data() rejects: detector.predict rethrows, the page catches.
SimplePredictFail(call) ==
    /\ page = "simple"
    /\ BagIn(call, pending)
    /\ pending' = pending (-) SetToBag({call})
    /\ returned' = Threw("predict", "InferenceError")
    /\ results' = PredictionErrorPanel
    /\ UNCHANGED <<page, model, metadata, isLoaded, loading, modelLoaded,
                   imageContainer, predictions, topK,
                   successfulLoad>>
    /\ UNCHANGED <<timeVars, scriptVars>>

(***************************************************************************)
(* demo.html of convert_and_optimize: loadModel and predict of the page.   *)
(***************************************************************************)
\* tf.loadLayersModel resolves: the global model is assigned.
ConvertLoadFetched ==
    /\ page = "convert"
    /\ loading # Null
    /\ loading.at = "model"
    /\ model' = [path     |-> loading.path,
                 classes  |-> ServedClasses(loading.path),
                 disposed |-> FALSE]
    /\ loading' = [loading EXCEPT !.at = "metadata"]
    /\ UNCHANGED <<page, metadata, isLoaded, pending, modelLoaded, results,
                   imageContainer, predictions, topK, returned,
                   successfulLoad>>
    /\ UNCHANGED <<timeVars, scriptVars>>

\* Either await of loadModel rejects: "Error loading model" is shown.  A
\* model that was assigned stays, with the metadata still undefined.
ConvertLoadFailed ==
    /\ page = "convert"
    /\ loading # Null
    /\ loading' = Null
    /\ results' = LoadErrorPanel
    /\ UNCHANGED <<page, model, metadata, isLoaded, pending, modelLoaded,
                   imageContainer, predictions, topK, returned,
                   successfulLoad>>
    /\ UNCHANGED <<timeVars, scriptVars>>

\* response.json() resolves: the global metadata is assigned, "ready" is shown.
ConvertLoadDone ==
    /\ page = "convert"
    /\ loading # Null
    /\ loading.at = "metadata"
    /\ metadata' = ServedMetadata(loading.path)
    /\ loading' = Null
    /\ results' = ReadyPanel
    /\ UNCHANGED <<page, model, isLoaded, pending, modelLoaded, imageContainer,
                   predictions, topK, returned,
                   successfulLoad>>
    /\ UNCHANGED <<timeVars, scriptVars>>

\* img.onload: the image is shown and predict(img) runs up to its await.
\* Without a model it alerts and returns; preprocessImage may throw.
ConvertUpload(image) ==
    /\ page = "convert"
    /\ BagCardinality(pending) < MaxPending
    /\ imageContainer' = [src |-> image]
    /\ IF model = Null
       THEN UNCHANGED <<results, pending, returned>>
       ELSE IF image = BrokenImage
            THEN /\ results' = PredictionErrorPanel
                 /\ returned' = Threw("pagePredict", "InferenceError")
                 /\ UNCHANGED pending
            ELSE /\ results' = LoadingPanel
                 /\ pending' = pending (+) SetToBag({PredictCall(image, ConvertTopK)})
                 /\ UNCHANGED returned
    /\ UNCHANGED <<page, model, metadata, isLoaded, loading, modelLoaded,
                   predictions, topK,
                   successfulLoad>>
    /\ UNCHANGED <<timeVars, scriptVars>>

\* The data arrives: the three best are ranked and shown.  The lookup of a
\* name throws when the metadata is undefined (its fetch failed or is still
\* under way), and the catch shows the error message.
ConvertPredictReturn(call) ==
    /\ page = "convert"
    /\ BagIn(call, pending)
    /\ pending' = pending (-) SetToBag({call})
    /\ LET top3 == ConvertTop3(ModelOutput(call.image, call.classes))
       IN  IF Len(top3) > 0
              /\ (metadata = Undefined \/ "species_mapping" \notin DOMAIN metadata)
           THEN /\ returned' = Threw("pagePredict", "TypeError")
                /\ results' = PredictionErrorPanel
           ELSE /\ returned' = Returned("pagePredict", Undefined)
                /\ results' = ConvertResultsPanel(top3, metadata)
    /\ UNCHANGED <<page, model, metadata, isLoaded, loading, modelLoaded,
                   imageContainer, predictions, topK,
                   successfulLoad>>
    /\ UNCHANGED <<timeVars, scriptVars>>

\* The promise of data() rejects: the catch shows the error message.
ConvertPredictFail(call) ==
    /\ page = "convert"
    /\ BagIn(call, pending)
    /\ pending' = pending (-) SetToBag({call})
    /\ returned' = Threw("pagePredict", "InferenceError")
    /\ results' = PredictionErrorPanel
    /\ UNCHANGED <<page, model, metadata, isLoaded, loading, modelLoaded,
                   imageContainer, predictions, topK,
                   successfulLoad>>
    /\ UNCHANGED <<timeVars, scriptVars>>

(***************************************************************************)
(* The specification of the detector in use.                               *)
(***************************************************************************)
AllImages == Images \cup {BrokenImage}

Next ==
    \/ \E path \in ModelPaths : LoadModel(path)
    \/ LoadModelFetched
    \/ LoadModelFailed
    \/ LoadModelDone
    \/ \E image \in AllImages : PreprocessImage(image)
    \/ \E image \in AllImages, k \in ScriptTopK : Predict(image, k)
    \/ \E call \in BagToSet(pending) : PredictReturn(call)
    \/ \E call \in BagToSet(pending) : PredictFail(call)
    \/ Dispose
    \/ \E speciesName \in SpeciesNames : GetSpeciesInfo(speciesName)
    \/ \E image \in AllImages : SimpleUpload(image)
    \/ \E call \in BagToSet(pending) : SimplePredictReturn(call)
    \/ \E call \in BagToSet(pending) : SimplePredictFail(call)
    \/ ConvertLoadFetched
    \/ ConvertLoadFailed
    \/ ConvertLoadDone
    \/ \E image \in AllImages : ConvertUpload(image)
    \/ \E call \in BagToSet(pending) : ConvertPredictReturn(call)
    \/ \E call \in BagToSet(pending) : ConvertPredictFail(call)

Spec == Init /\ [][Next]_vars

(***************************************************************************)
(* The ranking step called again and again: a script awaits one predict    *)
(* after the other on the same data, with its own topK or the default, and *)
(* reloads the detector in between.                                        *)
(***************************************************************************)
\* Largest number of predict calls of a run.
MaxCalls == 3

\* The directories the script loads from.
ReloadPaths == {"./", "./models/"}

\* The object predict returns (lines 242-247): the ranking, the rounded time
\* the inference took, and the time of the return.
PredictResult(data, md, k, startTime, dataTime) ==
    LET ranked == RankResult(data, md, k)
    IN  [op             |-> ranked.op,
         status         |-> ranked.status,
         predictions    |-> ranked.predictions,
         topPrediction  |-> ranked.topPrediction,
         processingTime |-> dataTime - startTime,
         timestamp      |-> dataTime]

RepeatInit ==
    /\ page = "none"
    /\ metadata \in { ServedMetadata(path) : path \in ReloadPaths }
    /\ predictions \in { ModelOutput(image, classes) :
                           image \in Images, classes \in 1 .. MaxClasses }
    /\ topK \in TopKValues
    /\ model = [path |-> "./", classes |-> Len(predictions), disposed |-> FALSE]
    /\ isLoaded = TRUE
    /\ loading = Null
    /\ pending = EmptyBag
    /\ modelLoaded = FALSE
    /\ results = EmptyPanel
    /\ imageContainer = Null
    /\ returned = NoReturn
    /\ successfulLoad = TRUE
    /\ NoHistory
    /\ NoScript

\* predict(image, k), awaited: the inference takes a millisecond, and the call
\* returns what the ranking step makes of the data with the metadata held.
RepeatPredict(k) ==
    /\ Len(calls) < MaxCalls
    /\ clock' = clock + 1
    /\ returned' = PredictResult(predictions, metadata, k, clock, clock')
    /\ calls' = Append(calls, [data     |-> predictions,
                               metadata |-> metadata,
                               topK     |-> k,
                               result   |-> returned'])
    /\ UNCHANGED <<page, model, metadata, isLoaded, loading, pending, modelLoaded,
                   results, imageContainer, predictions, topK, successfulLoad>>
    /\ UNCHANGED scriptVars

\* loadModel(path), awaited, between two predict calls: the metadata of the
\* path replaces the metadata held.
RepeatLoadModel(path) ==
    /\ calls # <<>>
    /\ Len(calls) < MaxCalls
    /\ metadata # ServedMetadata(path)
    /\ metadata' = ServedMetadata(path)
    /\ UNCHANGED <<page, model, isLoaded, loading, pending, modelLoaded, results,
                   imageContainer, predictions, topK, returned, successfulLoad>>
    /\ UNCHANGED <<timeVars, scriptVars>>

RepeatNext ==
    \/ \E k \in {topK, TopKDefault} : RepeatPredict(k)
    \/ \E path \in ReloadPaths : RepeatLoadModel(path)

RepeatSpec == RepeatInit /\ [][RepeatNext]_vars

(***************************************************************************)
(* The Python scripts: their values and the disk they write to.  Paths are *)
(* written from the directory ml-model, where the scripts are run from     *)
(* ("../models" of a script in ml-model/scripts is "models" here).         *)
(***************************************************************************)
None == [none |-> TRUE]

Scripts == {"simple_model_optimizer", "convert_and_optimize",
            "enhanced_wildlife_trainer", "create_compatible_model",
            "create_simple_model", "train_world_wildlife_enhanced"}

Optimizers == {"simple_model_optimizer", "convert_and_optimize"}

Directory == [kind |-> "dir"]

\* model.json, a saved model or a Keras file: its content is not looked at.
ModelFile == [kind |-> "model"]

\* A weight file, and the tensors it holds: those of the file first written.
WeightsFile(name) == [kind |-> "weights", tensors |-> name]

\* demo.html, wildlife-detector.js and README.md.
TextFile == [kind |-> "text"]

\* A metadata.json that json.load cannot parse.
Garbage == [kind |-> "garbage"]

\* json.dump(document, f): the file holds the document.
JsonFile(document) == [kind |-> "json", document |-> document]

\* open(path, 'w') and the copies of shutil: the file is created or replaced.
WriteFile(files, path, content) == (path :> content) @@ files

\* Path.mkdir(exist_ok=True) and os.makedirs(path, exist_ok=True).
Mkdir(files, path) == IF path \in DOMAIN files THEN files ELSE (path :> Directory) @@ files

\* A script has run off its end, or has died of an exception.
ScriptEnded == pc \in {"done", "raised"}

\* The state of the browser while a script runs: no page is open.
NoPage ==
    /\ page = "none"
    /\ model = Null
    /\ metadata = Null
    /\ isLoaded = FALSE
    /\ loading = Null
    /\ pending = EmptyBag
    /\ modelLoaded = FALSE
    /\ results = EmptyPanel
    /\ imageContainer = Null
    /\ predictions = <<>>
    /\ topK = TopKDefault
    /\ successfulLoad = FALSE

\* What a step of a script leaves alone.
pageVars == <<page, model, metadata, isLoaded, loading, pending, modelLoaded,
              results, imageContainer, predictions, topK, successfulLoad>>

(***************************************************************************)
(* simple_model_optimizer.py and convert_and_optimize.py: the models       *)
(* directory they read.                                                    *)
(***************************************************************************)
\* The weight files a models directory may hold.
WeightNames == {"group1-shard1of1.bin", "weights.bin"}

\* Number of species of create_default_metadata.
DefaultClasses == 50

\* The keys of model_info in the metadata.json of the enhanced trainer.
TrainerModelInfo == {"name", "version", "description", "input_shape", "num_classes",
                     "created_date", "model_size_mb", "architecture",
                     "training_epochs", "final_accuracy"}

\* Thresholds beyond the unit interval, as a hand-edited metadata.json may
\* carry them (percentages in place of fractions).
PercentThresholds ==
    [high_confidence |-> 8500, medium_confidence |-> 6500, low_confidence |-> 4500]

\* The documents models/metadata.json may hold: the one the enhanced trainer
\* writes, one with nothing but a species mapping, and hand-edited ones with
\* thresholds out of order or out of range.
InputMetadata ==
    { [model_info            |-> TrainerModelInfo,
       species_mapping       |-> DefaultSpeciesMapping(MaxClasses),
       confidence_thresholds |-> TrainerThresholds],
      [species_mapping       |-> DefaultSpeciesMapping(MaxClasses)],
      [model_info            |-> TrainerModelInfo,
       species_mapping       |-> DefaultSpeciesMapping(MaxClasses),
       confidence_thresholds |-> PassedThroughThresholds],
      [model_info            |-> TrainerModelInfo,
       confidence_thresholds |-> PercentThresholds] }

\* The models directory before an optimizer runs: with or without model.json,
\* with some weight files, and with a metadata.json, a broken one or none.
ModelsDirectories ==
    { [path \in {"models"} \cup (IF hasModel THEN {"models/model.json"} ELSE {})
                \cup { "models/" \o w : w \in weights }
                \cup (IF md = None THEN {} ELSE {"models/metadata.json"}) |->
          IF path = "models" THEN Directory
          ELSE IF path = "models/model.json" THEN ModelFile
          ELSE IF path = "models/metadata.json"
               THEN (IF md = Garbage THEN Garbage ELSE JsonFile(md))
          ELSE WeightsFile(path)] :
        hasModel \in BOOLEAN, weights \in SUBSET WeightNames,
        md \in InputMetadata \cup {None, Garbage} }

\* The disk a script starts on.
InitialFiles(s) ==
    IF s \in Optimizers THEN ModelsDirectories \cup {<<>>}
    ELSE IF s = "train_world_wildlife_enhanced"
         THEN {<<>>, ("../frontend/public/models" :> Directory)}
    ELSE {<<>>}

ScriptInit ==
    /\ NoPage
    /\ NoHistory
    /\ script \in Scripts
    /\ pc = "start"
    /\ fs \in InitialFiles(script)
    /\ self = None
    /\ returned = NoReturn

(***************************************************************************)
(* SimpleModelOptimizer of simple_model_optimizer.py and ModelConverter of *)
(* convert_and_optimize.py.                                                *)
(***************************************************************************)
OutputDir == "models/web_optimized"

OptimizedPath == "models/web_optimized/current_model"

\* __init__: Path.mkdir(exist_ok=True) without parents raises
\* FileNotFoundError when the models directory is missing.
OptimizerInit ==
    /\ script \in Optimizers
    /\ pc = "start"
    /\ IF "models" \in DOMAIN fs
       THEN /\ fs' = Mkdir(fs, OutputDir)
            /\ self' = [model_dir |-> "models", output_dir |-> OutputDir]
            /\ pc' = "constructed"
            /\ UNCHANGED returned
       ELSE /\ pc' = "raised"
            /\ returned' = Threw("__init__", "FileNotFoundError")
            /\ UNCHANGED <<fs, self>>
    /\ UNCHANGED <<script, pageVars, timeVars>>

\* The subscripts of create_optimized_metadata in convert_and_optimize, which
\* raise KeyError on a document without them; simple_model_optimizer reads the
\* same keys with get and a default.
RequiredModelInfo == {"name", "version", "input_shape", "created_date"}

OptimizedMetadataRaises(s, document) ==
    /\ s = "convert_and_optimize"
    /\ \/ "model_info" \notin DOMAIN document
       \/ ~(RequiredModelInfo \subseteq document.model_info)

\* web_metadata of create_optimized_metadata: the species mapping and the
\* thresholds are those of the input, whatever they are, and the defaults
\* when the input has none.
OptimizedMetadata(document) ==
    LET species_mapping == IF "species_mapping" \in DOMAIN document
                           THEN document.species_mapping ELSE <<>>
    IN  [num_classes           |-> Cardinality(DOMAIN species_mapping),
         species_mapping       |-> species_mapping,
         confidence_thresholds |-> IF "confidence_thresholds" \in DOMAIN document
                                   THEN document.confidence_thresholds
                                   ELSE DefaultThresholds]

\* default_metadata of create_default_metadata.
DefaultMetadata ==
    [num_classes           |-> DefaultClasses,
     species_mapping       |-> DefaultSpeciesMapping(DefaultClasses),
     confidence_thresholds |-> DefaultThresholds]

\* The *.bin files of the models directory.
WeightFilesOf(files) == { w \in WeightNames : ("models/" \o w) \in DOMAIN files }

\* optimize_existing_model up to the metadata: the directory, model.json and
\* each weight file.
CopiedModel(files) ==
    LET weights == WeightFilesOf(files)
        copies  == [path \in { OptimizedPath \o "/" \o w : w \in weights } |->
                       files["models/" \o
                             (CHOOSE w \in weights : path = OptimizedPath \o "/" \o w)]]
    IN  copies @@ WriteFile(Mkdir(files, OptimizedPath),
                            OptimizedPath \o "/model.json", files["models/model.json"])

\* The files optimize_existing_model writes behind the metadata: demo.html,
\* and the helper wildlife-detector.js in simple_model_optimizer only.
WebFiles(s, files) ==
    IF s = "simple_model_optimizer"
    THEN WriteFile(WriteFile(files, OptimizedPath \o "/demo.html", TextFile),
                   OptimizedPath \o "/wildlife-detector.js", TextFile)
    ELSE WriteFile(files, OptimizedPath \o "/demo.html", TextFile)

\* optimize_existing_model with the output directory made ahead of the test
\* for model.json.
OptimizeExistingModelDirectoryFirst ==
    /\ script \in Optimizers
    /\ pc = "constructed"
    /\ IF "models/model.json" \notin DOMAIN fs
       THEN /\ returned' = Returned("optimize_existing_model", FALSE)
            /\ pc' = "optimized"
            /\ fs' = Mkdir(fs, OptimizedPath)
       ELSE /\ fs' = WebFiles(script, WriteFile(CopiedModel(fs),
                                  OptimizedPath \o "/metadata.json",
                                  JsonFile(DefaultMetadata)))
            /\ returned' = Returned("optimize_existing_model", TRUE)
            /\ pc' = "optimized"
    /\ UNCHANGED <<script, self, pageVars, timeVars>>

\* optimize_existing_model: False without model.json; an exception of
\* create_optimized_metadata leaves the copies made so far behind.
OptimizeExistingModel ==
    /\ script \in Optimizers
    /\ pc = "constructed"
    /\ IF "models/model.json" \notin DOMAIN fs
       THEN /\ returned' = Returned("optimize_existing_model", FALSE)
            /\ pc' = "optimized"
            /\ UNCHANGED fs
       ELSE IF "models/metadata.json" \notin DOMAIN fs
       THEN /\ fs' = WebFiles(script, WriteFile(CopiedModel(fs),
                                  OptimizedPath \o "/metadata.json",
                                  JsonFile(DefaultMetadata)))
            /\ returned' = Returned("optimize_existing_model", TRUE)
            /\ pc' = "optimized"
       ELSE IF fs["models/metadata.json"] = Garbage
       THEN /\ fs' = CopiedModel(fs)
            /\ returned' = Threw("optimize_existing_model", "JSONDecodeError")
            /\ pc' = "raised"
       ELSE IF OptimizedMetadataRaises(script, fs["models/metadata.json"].document)
       THEN /\ fs' = CopiedModel(fs)
            /\ returned' = Threw("optimize_existing_model", "KeyError")
            /\ pc' = "raised"
       ELSE /\ fs' = WebFiles(script, WriteFile(CopiedModel(fs),
                         OptimizedPath \o "/metadata.json",
                         JsonFile(OptimizedMetadata(fs["models/metadata.json"].document))))
            /\ returned' = Returned("optimize_existing_model", TRUE)
            /\ pc' = "optimized"
    /\ UNCHANGED <<script, self, pageVars, timeVars>>

\* main of simple_model_optimizer without its call of create_readme.
ReportedFilesWithoutReadme(s, success, files) == files

\* main behind optimize_existing_model: simple_model_optimizer writes
\* README.md before it reports success; convert_and_optimize only reports.
ReportedFiles(s, success, files) ==
    IF success /\ s = "simple_model_optimizer"
    THEN WriteFile(files, OptimizedPath \o "/README.md", TextFile)
    ELSE files

OptimizerReport ==
    /\ script \in Optimizers
    /\ pc = "optimized"
    /\ fs' = ReportedFiles(script, returned.value, fs)
    /\ returned' = Returned("main", IF returned.value THEN "completed successfully"
                                    ELSE "No model found to optimize")
    /\ pc' = "done"
    /\ UNCHANGED <<script, self, pageVars, timeVars>>

(***************************************************************************)
(* WorldWildlifeTrainer of enhanced_wildlife_trainer.py.                   *)
(***************************************************************************)
\* Largest distance of a num_classes tried from the number of named species.
MaxShift == 1

\* The 108 of range(108, self.num_classes) and of k < 108 in save_model.
NamedSpecies == 108

\* The default of num_classes.
TrainerDefaultClasses == 500

\* The num_classes a trainer is constructed with: fewer classes than named
\* species, as many (main), more, and the default.
TrainerClassChoices ==
    ((NamedSpecies - MaxShift) .. (NamedSpecies + MaxShift)) \cup {TrainerDefaultClasses}

\* The names of the dict literal of create_global_species_mapping, keys 0 to
\* 107 in order (GlobalSpecies[i + 1] is the name of key i).
GlobalSpecies ==
    << "African Elephant", "African Lion", "Leopard", "Cheetah", "African Buffalo",
       "Rhinoceros", "Hippopotamus", "Giraffe", "Zebra", "Wildebeest",
       "Warthog", "Baboon", "Vervet Monkey", "Meerkat", "Caracal", "Serval",
       "Bengal Tiger", "Asiatic Elephant", "Snow Leopard", "Red Panda",
       "Giant Panda", "Orangutan", "Proboscis Monkey", "Macaque", "Asian Black Bear",
       "Sloth Bear", "Malayan Tapir", "Clouded Leopard", "Sun Bear", "Binturong",
       "Pangolin", "Gaur", "American Black Bear", "Grizzly Bear", "Polar Bear",
       "Gray Wolf", "Red Fox", "Coyote", "Cougar", "Lynx", "Bobcat", "White-tailed Deer",
       "Elk", "Moose", "Bison", "Bighorn Sheep", "Mountain Goat", "Pronghorn",
       "Brown Bear", "Eurasian Wolf", "Red Deer", "Roe Deer", "Wild Boar",
       "Eurasian Lynx", "Pine Marten", "European Badger", "Red Squirrel",
       "European Hedgehog", "Chamois", "Ibex", "Jaguar", "Puma", "Ocelot",
       "Margay", "Spectacled Bear", "Giant Anteater", "Two-toed Sloth",
       "Three-toed Sloth", "Capybara", "Howler Monkey", "Spider Monkey",
       "Titi Monkey", "Kangaroo", "Wallaby", "Koala", "Wombat", "Tasmanian Devil",
       "Echidna", "Platypus", "Dingo", "Humpback Whale", "Blue Whale",
       "Orca", "Dolphin", "Sea Lion", "Seal", "Walrus", "Manatee", "Arctic Fox",
       "Snowy Owl", "Caribou", "Musk Ox", "Arctic Hare", "Beluga Whale",
       "Narwhal", "Polar Bear", "Bald Eagle", "Golden Eagle", "Peregrine Falcon",
       "Red-tailed Hawk", "Great Horned Owl", "Barn Owl", "Osprey", "Secretary Bird",
       "Harpy Eagle", "Philippine Eagle", "Steller's Sea Eagle", "White-bellied Sea Eagle" >>

\* create_global_species_mapping: the dict literal, and behind it one
\* Species_nnn for each i of range(108, num_classes).
GlobalSpeciesMapping(num_classes) ==
    [i \in NamedSpecies .. (num_classes - 1) |-> DefaultSpeciesName(i)]
        @@ [i \in 0 .. (Len(GlobalSpecies) - 1) |-> GlobalSpecies[i + 1]]

\* __init__: the three output directories and the species mapping.
EnhancedTrainerInit(num_classes) ==
    /\ script = "enhanced_wildlife_trainer"
    /\ pc = "start"
    /\ fs' = Mkdir(Mkdir(Mkdir(fs, "models"), "logs"), "visualizations")
    /\ self' = [num_classes     |-> num_classes,
                species_mapping |-> GlobalSpeciesMapping(num_classes),
                model           |-> None,
                history         |-> None]
    /\ pc' = "constructed"
    /\ UNCHANGED <<script, returned, pageVars, timeVars>>

\* base_model of create_enhanced_model: EfficientNetB0, frozen.
EfficientNetBackbone == [name |-> "efficientnetb0", trainable |-> FALSE]

\* layers.Conv2D(32, ...), the first layer of the custom CNN: trainable is a
\* property of every Keras layer, True unless it is assigned.
FirstConvolution == [name |-> "conv2d", trainable |-> TRUE]

\* create_enhanced_model: a Sequential with num_classes outputs, behind the
\* backbone or behind the convolutions.  layers[1] is model.layers[0]; the
\* layers behind it play no part in what follows.
EnhancedCreateModel(use_efficientnet) ==
    /\ script = "enhanced_wildlife_trainer"
    /\ pc = "constructed"
    /\ self' = [self EXCEPT !.model =
                   [outputs |-> self.num_classes,
                    layers  |-> << IF use_efficientnet THEN EfficientNetBackbone
                                   ELSE FirstConvolution >>]]
    /\ pc' = "created"
    /\ UNCHANGED <<script, fs, returned, pageVars, timeVars>>

\* hasattr of Python on an object carried as a record.
hasattr(object, attribute) == attribute \in DOMAIN object

\* The test in front of the second phase of train_model.
FineTunes(network) == hasattr(network.layers[1], "trainable")

\* The model behind the fits of train_model: the second phase unfreezes
\* model.layers[0].
FittedModel(network) ==
    IF FineTunes(network) THEN [network EXCEPT !.layers[1].trainable = TRUE]
    ELSE network

\* self.history behind the fits of train_model: the history of the first fit,
\* extended by that of the second.
FitHistory(network) ==
    [phases |-> IF FineTunes(network) THEN <<"initial", "fine_tuning">>
                ELSE <<"initial">>]

TfModelPath == "models/enhanced_wildlife_detector_v2_<timestamp>"

TimestampedMetadataPath == "models/enhanced_wildlife_detector_v2_metadata_<timestamp>.json"

\* metadata of save_model: the whole species mapping.
TrainerMetadata(trainer) ==
    [model_info            |-> TrainerModelInfo,
     num_classes           |-> trainer.num_classes,
     species_mapping       |-> trainer.species_mapping,
     confidence_thresholds |-> TrainerThresholds]

\* simple_metadata of save_model: the entries of the mapping with k < 108.
SimpleMetadata(trainer) ==
    [model_info            |-> TrainerModelInfo,
     num_classes           |-> trainer.num_classes,
     species_mapping       |-> [k \in { i \in DOMAIN trainer.species_mapping :
                                          i < NamedSpecies } |->
                                    trainer.species_mapping[k]],
     confidence_thresholds |-> TrainerThresholds]

\* save_model up to the export: the saved model.
SavedModel(files) == WriteFile(Mkdir(files, TfModelPath),
                               TfModelPath \o "/saved_model.pb", ModelFile)

\* save_model behind the export: both metadata files and models/model.pb.
SavedMetadata(files, trainer) ==
    WriteFile(WriteFile(WriteFile(files,
        TimestampedMetadataPath, JsonFile(TrainerMetadata(trainer))),
        "models/model.pb", files[TfModelPath \o "/saved_model.pb"]),
        "models/metadata.json", JsonFile(SimpleMetadata(trainer)))

\* train_model: the fits, and save_model at the end.  tf.keras.utils.model_to_tf_js is
\* looked up in the TensorFlow installed: the call raises AttributeError
\* where the module has no such function, and save_model ends there.
EnhancedTrainModel(exported) ==
    /\ script = "enhanced_wildlife_trainer"
    /\ pc = "created"
    /\ self' = [self EXCEPT !.model   = FittedModel(self.model),
                            !.history = FitHistory(self.model)]
    /\ IF exported
       THEN /\ fs' = SavedMetadata(SavedModel(fs), self')
            /\ returned' = Returned("train_model", self'.history)
            /\ pc' = "done"
       ELSE /\ fs' = SavedModel(fs)
            /\ returned' = Threw("train_model", "AttributeError")
            /\ pc' = "raised"
    /\ UNCHANGED <<script, pageVars, timeVars>>

(***************************************************************************)
(* create_compatible_model.py.                                             *)
(***************************************************************************)
\* num_classes of main.
CompatibleClasses == 100

\* "../../frontend/public/models" of a script in ml-model/scripts.
FrontendModelsDir == "../frontend/public/models"

\* wildlife_species of create_world_wildlife_labels.
WorldWildlifeLabels ==
    << "African Elephant", "Bengal Tiger", "Mountain Gorilla", "Snow Leopard",
       "Giant Panda", "African Lion", "Cheetah", "Polar Bear", "Grizzly Bear",
       "Black Bear", "Wolf", "Red Fox", "Arctic Fox", "Lynx", "Bobcat",
       "Leopard", "Jaguar", "Cougar", "Serval", "Caracal", "Giraffe",
       "Zebra", "Rhinoceros", "Hippopotamus", "Buffalo", "Antelope", "Gazelle",
       "Impala", "Kudu", "Wildebeest", "Deer", "Elk", "Moose", "Caribou",
       "Reindeer", "Bald Eagle", "Golden Eagle", "Peregrine Falcon", "Red-tailed Hawk",
       "Great Horned Owl", "Snowy Owl", "Barn Owl", "Osprey", "Condor",
       "Vulture", "Emperor Penguin", "Albatross", "Pelican", "Great Blue Heron",
       "Sandhill Crane", "Flamingo", "Mute Swan", "Canada Goose", "Mallard Duck",
       "Common Loon", "Humpback Whale", "Bottlenose Dolphin", "Harbor Seal",
       "Sea Lion", "Walrus", "Sea Otter", "North American Beaver", "Muskrat",
       "Capybara", "North American Porcupine", "Eastern Gray Squirrel",
       "Chipmunk", "Prairie Dog", "Alpine Marmot", "Groundhog", "Cottontail Rabbit",
       "Snowshoe Hare", "Red Kangaroo", "Wallaby", "Koala", "Brown-throated Sloth",
       "Nine-banded Armadillo", "Pangolin", "Aardvark", "Giant Anteater",
       "Rhesus Macaque", "Chimpanzee", "Bornean Orangutan", "Western Gorilla",
       "Olive Baboon", "Ring-tailed Lemur", "White-handed Gibbon", "Japanese Macaque",
       "Howler Monkey", "Spider Monkey", "American Crocodile", "American Alligator",
       "Green Iguana", "Komodo Dragon", "Monitor Lizard", "Python", "Boa Constrictor",
       "Rattlesnake", "King Cobra", "Green Tree Python", "Poison Dart Frog",
       "Bullfrog", "Tree Frog", "Salamander", "Axolotl", "Great White Shark",
       "Hammerhead Shark", "Manta Ray", "Blue Whale", "Orca", "Monarch Butterfly",
       "Blue Morpho", "Dragonfly", "Honeybee", "Tarantula" >>

\* What the TensorFlow.js converter leaves in its output directory when it
\* exits with 0: model.json and the weight shards, named by the converter.
ConverterOutput(files, dir) ==
    WriteFile(WriteFile(files, dir \o "/model.json", ModelFile),
              dir \o "/group1-shard1of1.bin", WeightsFile(dir \o "/group1-shard1of1.bin"))

\* The ways a run of the converter in a subprocess ends: exit status 0, another
\* exit status, or an exception of subprocess.run (no such program).
Conversions == {"converted", "failed", "exception"}

\* main up to its metadata: the directory, wildlife_model.h5, the exported
\* saved_model, and the conversion; both fallbacks save model.h5 in place of
\* the converted model.
CompatibleConvert(conversion) ==
    /\ script = "create_compatible_model"
    /\ pc = "start"
    /\ LET saved == WriteFile(WriteFile(Mkdir(fs, OptimizedPath),
                        OptimizedPath \o "/wildlife_model.h5", ModelFile),
                        OptimizedPath \o "/saved_model", Directory)
       IN  fs' = IF conversion = "converted"
                 THEN ConverterOutput(saved, OptimizedPath)
                 ELSE WriteFile(saved, OptimizedPath \o "/model.h5", ModelFile)
    /\ pc' = conversion
    /\ UNCHANGED <<script, self, returned, pageVars, timeVars>>

\* metadata of main: deployment.tensorflowjs_ready is the literal True.
CompatibleMetadata ==
    [num_classes        |-> CompatibleClasses,
     species_supported  |-> Len(WorldWildlifeLabels),
     species            |-> WorldWildlifeLabels,
     tensorflowjs_ready |-> TRUE]

\* The copy to the frontend: model.json and metadata.json where they exist,
\* and each *.bin of the directory.
CopiedToFrontend(files) ==
    LET names  == { name \in {"model.json", "metadata.json", "group1-shard1of1.bin"} :
                      (OptimizedPath \o "/" \o name) \in DOMAIN files }
        copies == [path \in { FrontendModelsDir \o "/" \o name : name \in names } |->
                      files[OptimizedPath \o "/" \o
                            (CHOOSE name \in names :
                                 path = FrontendModelsDir \o "/" \o name)]]
    IN  copies @@ Mkdir(files, FrontendModelsDir)

\* main from its metadata on.
CompatibleWriteMetadata ==
    /\ script = "create_compatible_model"
    /\ pc \in Conversions
    /\ fs' = CopiedToFrontend(WriteFile(fs, OptimizedPath \o "/metadata.json",
                                        JsonFile(CompatibleMetadata)))
    /\ returned' = Returned("main", pc)
    /\ pc' = "done"
    /\ UNCHANGED <<script, self, pageVars, timeVars>>

(***************************************************************************)
(* create_simple_model.py.                                                 *)
(***************************************************************************)
\* model.json as create_manual_model_json writes it, and its weights.bin of
\* random numbers.
ManualModelFile == [kind |-> "model", topology |-> "manual"]

\* The 10 of Dense(10) and of outputShape.
SimpleClasses == 10

\* "classes" of create_metadata.
SimpleModelClasses ==
    << "Bear", "Deer", "Wolf", "Fox", "Rabbit",
       "Squirrel", "Bird", "Raccoon", "Moose", "Elk" >>

\* save_model_components: the saved model, then the converter in a subprocess.
\* True, with the saved model removed, when the converter exits with 0; False
\* on another exit status and on an exception.
SaveModelComponents(conversion) ==
    /\ script = "create_simple_model"
    /\ pc = "start"
    /\ fs' = IF conversion = "converted"
             THEN ConverterOutput(Mkdir(fs, "models"), "models")
             ELSE WriteFile(Mkdir(fs, "models"), "models/saved_model", Directory)
    /\ returned' = Returned("save_model_components", conversion = "converted")
    /\ pc' = "saved"
    /\ UNCHANGED <<script, self, pageVars, timeVars>>

\* create_manual_model_json: model.json and weights.bin.
ManualModelJson(files) ==
    WriteFile(WriteFile(files, "models/model.json", ManualModelFile),
              "models/weights.bin", WeightsFile("random"))

\* metadata of create_metadata.
SimpleModelMetadata ==
    [outputShape |-> SimpleClasses,
     classes     |-> SimpleModelClasses]

\* main behind save_model_components: the manual files if it returned False,
\* then the metadata and the list of the files created.
SimpleModelFinish ==
    /\ script = "create_simple_model"
    /\ pc = "saved"
    /\ fs' = WriteFile(IF returned.value THEN fs ELSE ManualModelJson(fs),
                       "models/metadata.json", JsonFile(SimpleModelMetadata))
    /\ returned' = Returned("main", [success |-> returned.value])
    /\ pc' = "done"
    /\ UNCHANGED <<script, self, pageVars, timeVars>>

(***************************************************************************)
(* WorldWildlifeModelTrainer of train_world_wildlife_enhanced.py.          *)
(***************************************************************************)
\* Largest samples_per_class of a call of generate_synthetic_data.
MaxSamples == 2

\* self.num_classes of __init__.
WorldClasses == 500

\* The list literal self.wildlife_species starts as.
WildlifeSpeciesDatabase ==
    << "African Elephant", "Bengal Tiger", "Mountain Gorilla", "Snow Leopard",
       "Giant Panda", "African Lion", "Cheetah", "Polar Bear", "Grizzly Bear",
       "Black Bear", "Wolf", "Red Fox", "Arctic Fox", "Lynx", "Bobcat",
       "Leopard", "Jaguar", "Cougar", "Serval", "Caracal", "Giraffe",
       "Zebra", "Rhinoceros", "Hippopotamus", "Buffalo", "Antelope", "Gazelle",
       "Impala", "Kudu", "Wildebeest", "Deer", "Elk", "Moose", "Caribou",
       "Reindeer", "Bald Eagle", "Golden Eagle", "Peregrine Falcon", "Red-tailed Hawk",
       "Great Horned Owl", "Snowy Owl", "Barn Owl", "Osprey", "Condor",
       "Vulture", "Penguin", "Albatross", "Pelican", "Heron", "Crane",
       "Flamingo", "Swan", "Goose", "Duck", "Loon", "Whale", "Dolphin",
       "Seal", "Sea Lion", "Walrus", "Otter", "Beaver", "Muskrat", "Capybara",
       "Porcupine", "Squirrel", "Chipmunk", "Prairie Dog", "Marmot", "Groundhog",
       "Rabbit", "Hare", "Kangaroo", "Wallaby", "Koala", "Sloth", "Armadillo",
       "Pangolin", "Aardvark", "Anteater", "Monkey", "Chimpanzee", "Orangutan",
       "Gorilla", "Baboon", "Lemur", "Gibbon", "Macaque", "Howler Monkey",
       "Spider Monkey", "Crocodile", "Alligator", "Iguana", "Komodo Dragon",
       "Monitor Lizard", "Snake", "Python", "Cobra", "Viper", "Rattlesnake",
       "Turtle", "Tortoise", "Sea Turtle", "Frog", "Toad", "Salamander",
       "Shark", "Ray", "Tuna", "Salmon" >>

\* [f"Wildlife_Species_{i}" for i in range(from, to)]
PaddingNames(from, to) ==
    [k \in 1 .. (IF to > from THEN to - from ELSE 0) |->
        "Wildlife_Species_" \o ToString(from + k - 1)]

\* The slice that drops the last of the n entries as well.
TakeOneLess(s, n) == SubSeq(s, 1, IF n - 1 < Len(s) THEN n - 1 ELSE Len(s))

\* s[:n] for n >= 0.
Take(s, n) == SubSeq(s, 1, IF n < Len(s) THEN n ELSE Len(s))

\* __init__ up to the padding loop.
WorldTrainerInit ==
    /\ script = "train_world_wildlife_enhanced"
    /\ pc = "start"
    /\ self' = [num_classes      |-> WorldClasses,
                model            |-> None,
                wildlife_species |-> WildlifeSpeciesDatabase]
    /\ pc' = "padding"
    /\ UNCHANGED <<script, fs, returned, pageVars, timeVars>>

\* One turn of the while loop: the list is extended up to num_classes.
PadSpecies ==
    /\ script = "train_world_wildlife_enhanced"
    /\ pc = "padding"
    /\ Len(self.wildlife_species) < self.num_classes
    /\ self' = [self EXCEPT !.wildlife_species =
                   @ \o PaddingNames(Len(@), self.num_classes)]
    /\ UNCHANGED <<script, pc, fs, returned, pageVars, timeVars>>

\* The loop is left, and the list is cut to num_classes entries.
TruncateSpecies ==
    /\ script = "train_world_wildlife_enhanced"
    /\ pc = "padding"
    /\ ~(Len(self.wildlife_species) < self.num_classes)
    /\ self' = [self EXCEPT !.wildlife_species = Take(@, self.num_classes)]
    /\ pc' = "constructed"
    /\ UNCHANGED <<script, fs, returned, pageVars, timeVars>>

\* y of generate_synthetic_data: np.repeat(np.arange(len(species)), n).
Labels(species, samples_per_class) ==
    [i \in 1 .. (Len(species) * samples_per_class) |-> (i - 1) \div samples_per_class]

\* generate_synthetic_data: to_categorical raises IndexError on a label that
\* is not below num_classes.
GenerateSyntheticData(samples_per_class) ==
    /\ script = "train_world_wildlife_enhanced"
    /\ pc = "constructed"
    /\ LET y == Labels(self.wildlife_species, samples_per_class)
       IN  returned' = IF \E i \in 1 .. Len(y) : y[i] >= self.num_classes
                       THEN Threw("generate_synthetic_data", "IndexError")
                       ELSE Returned("generate_synthetic_data", [y |-> y])
    /\ UNCHANGED <<script, pc, fs, self, pageVars, timeVars>>

\* train_model: self.model is assigned first; the fit that follows may raise
\* (the synthetic data of 200 samples per class does not fit in memory), and
\* leaves best_model.h5 behind when it runs.
TrainModel(trained) ==
    /\ script = "train_world_wildlife_enhanced"
    /\ pc = "constructed"
    /\ self' = [self EXCEPT !.model = [outputs |-> self.num_classes]]
    /\ IF trained
       THEN /\ fs' = WriteFile(fs, "models/best_model.h5", ModelFile)
            /\ returned' = Returned("train_model", "history")
       ELSE /\ returned' = Threw("train_model", "MemoryError")
            /\ UNCHANGED fs
    /\ UNCHANGED <<script, pc, pageVars, timeVars>>

\* The error of evaluate_model and save_model_for_web on self.model is None.
NotTrainedYet == "ValueError: Model not trained yet. Call train_model() first."

\* evaluate_model: ValueError before anything else on a trainer without model.
EvaluateModel ==
    /\ script = "train_world_wildlife_enhanced"
    /\ pc = "constructed"
    /\ returned' = IF self.model = None
                   THEN Threw("evaluate_model", NotTrainedYet)
                   ELSE Returned("evaluate_model", "results")
    /\ UNCHANGED <<script, pc, fs, self, pageVars, timeVars>>

\* metadata of save_model_for_web.
WorldMetadata(trainer) ==
    [num_classes |-> trainer.num_classes,
     species     |-> trainer.wildlife_species]

\* The files of save_model_for_web: the directories, the converted model, the
\* metadata, and the copies where the frontend directory exists.
WebModel(files, trainer) ==
    LET saved == WriteFile(ConverterOutput(Mkdir(Mkdir(files, OutputDir), OptimizedPath),
                                           OptimizedPath),
                           OptimizedPath \o "/metadata.json",
                           JsonFile(WorldMetadata(trainer)))
    IN  IF FrontendModelsDir \in DOMAIN files THEN CopiedToFrontend(saved) ELSE saved

\* save_model_for_web with the directories made ahead of the test of self.model.
SaveModelForWebDirectoriesFirst ==
    /\ script = "train_world_wildlife_enhanced"
    /\ pc = "constructed"
    /\ IF self.model = None
       THEN /\ returned' = Threw("save_model_for_web", NotTrainedYet)
            /\ fs' = Mkdir(Mkdir(fs, OutputDir), OptimizedPath)
       ELSE /\ returned' = Returned("save_model_for_web", OptimizedPath)
            /\ fs' = WebModel(fs, self)
    /\ UNCHANGED <<script, pc, self, pageVars, timeVars>>

\* save_model_for_web: ValueError before anything else on a trainer without
\* model.
SaveModelForWeb ==
    /\ script = "train_world_wildlife_enhanced"
    /\ pc = "constructed"
    /\ IF self.model = None
       THEN /\ returned' = Threw("save_model_for_web", NotTrainedYet)
            /\ UNCHANGED fs
       ELSE /\ returned' = Returned("save_model_for_web", OptimizedPath)
            /\ fs' = WebModel(fs, self)
    /\ UNCHANGED <<script, pc, self, pageVars, timeVars>>

ScriptNext ==
    \/ OptimizerInit
    \/ OptimizeExistingModel
    \/ OptimizerReport
    \/ \E num_classes \in TrainerClassChoices : EnhancedTrainerInit(num_classes)
    \/ \E use_efficientnet \in BOOLEAN : EnhancedCreateModel(use_efficientnet)
    \/ \E exported \in BOOLEAN : EnhancedTrainModel(exported)
    \/ \E conversion \in Conversions : CompatibleConvert(conversion)
    \/ CompatibleWriteMetadata
    \/ \E conversion \in Conversions : SaveModelComponents(conversion)
    \/ SimpleModelFinish
    \/ WorldTrainerInit
    \/ PadSpecies
    \/ TruncateSpecies
    \/ \E samples_per_class \in 1 .. MaxSamples : GenerateSyntheticData(samples_per_class)
    \/ \E trained \in BOOLEAN : TrainModel(trained)
    \/ EvaluateModel
    \/ SaveModelForWeb

ScriptSpec == ScriptInit /\ [][ScriptNext]_vars

\* A script that has a step to take takes it: the interpreter does not stop.
ScriptFairSpec == ScriptSpec /\ WF_vars(ScriptNext)

(***************************************************************************)
(* Notions the claims are stated with.                                     *)
(***************************************************************************)
\* The ranking step has returned.
RankReturned == returned.status = "returned"

\* The ranking step has ended, with a result or with an error.
RankEnded == returned # NoReturn

NumClasses == Len(predictions)

MappingSize == Cardinality(DOMAIN metadata.species_mapping)

ValidTopK == 1 <= topK /\ topK <= NumClasses

\* The confidence tiers, lowest first.
Tier(level) ==
    CASE level = "unclassified" -> 0
      [] level = "low"          -> 1
      [] level = "medium"       -> 2
      [] level = "high"         -> 3

\* The bucket rule of the specification, with its fourth bucket.
SpecifiedBucket(p, t) ==
    IF p >= t.high_confidence THEN "high"
    ELSE IF p >= t.medium_confidence THEN "medium"
    ELSE IF p >= t.low_confidence THEN "low"
    ELSE "unclassified"

ThresholdsOrdered ==
    /\ metadata.confidence_thresholds.high_confidence
         >= metadata.confidence_thresholds.medium_confidence
    /\ metadata.confidence_thresholds.medium_confidence
         >= metadata.confidence_thresholds.low_confidence

\* The indices of the entries returned.
ReturnedIndices ==
    { returned.predictions[k].index : k \in 1 .. Len(returned.predictions) }

(***************************************************************************)
(* Claims of the ranking step, checked under RankSpec.                     *)
(***************************************************************************)
\* C1: for a vector of length N and 1 <= topK <= N, the predictions list has
\* exactly topK entries and their probabilities never increase along the list.
C1_TopKSortedDescending ==
    (RankReturned /\ ValidTopK) =>
        /\ Len(returned.predictions) = topK
        /\ \A i, j \in 1 .. Len(returned.predictions) :
              i < j => returned.predictions[i].probability
                          >= returned.predictions[j].probability

\* C1 witness: the vector 0.1, 0.7, 0.2 ranked with topK = 2 gives 0.7, 0.2.
C1_Witness ==
    /\ RankReturned
    /\ predictions = <<10, 70, 20>>
    /\ topK = 2
    /\ Len(returned.predictions) = 2
    /\ returned.predictions[1].index = 1
    /\ returned.predictions[2].index = 2

\* C2: a topK that is not positive, or exceeds the length of the vector, makes
\* the ranking fail with InvalidInput instead of returning a list.
C2_InvalidTopKRaises ==
    (RankEnded /\ ~ValidTopK) => returned.status = "InvalidInput"

\* C3: a vector whose length differs from the size of the species mapping
\* makes the ranking fail with InvalidInput instead of returning a list (stated
\* for a topK in range, so that the length alone is at fault).
C3_LengthMismatchRaises ==
    (RankEnded /\ ValidTopK /\ NumClasses # MappingSize)
        => returned.status = "InvalidInput"

\* C4: every returned prediction is labelled high, medium, low or unclassified
\* by the first threshold its probability reaches, unclassified below low
\* (stated for thresholds ordered high >= medium >= low).
C4_FourBuckets ==
    (RankReturned /\ ThresholdsOrdered) =>
        \A k \in 1 .. Len(returned.predictions) :
            returned.predictions[k].confidenceLevel
              = SpecifiedBucket(returned.predictions[k].probability,
                                metadata.confidence_thresholds)

\* C5: of two returned entries of equal probability the one with the smaller
\* class index comes first, and of a group of equal entries cut by topK the
\* ones kept have the smallest indices.
C5_TiesByIndex ==
    RankReturned =>
        /\ \A i, j \in 1 .. Len(returned.predictions) :
              (i < j /\ returned.predictions[i].probability
                          = returned.predictions[j].probability)
                  => returned.predictions[i].index < returned.predictions[j].index
        /\ \A k \in 1 .. Len(returned.predictions), c \in 1 .. NumClasses :
              ((c - 1) \notin ReturnedIndices
                 /\ predictions[c] = returned.predictions[k].probability)
                  => returned.predictions[k].index < c - 1

\* C5 witness: three equal entries cut to two keep indices 0 and 1, in order.
C5_Witness ==
    /\ RankReturned
    /\ NumClasses = 3
    /\ predictions[1] = predictions[2]
    /\ predictions[2] = predictions[3]
    /\ topK = 2
    /\ Len(returned.predictions) = 2
    /\ returned.predictions[1].index = 0
    /\ returned.predictions[2].index = 1

\* C6 as claimed: the prediction of an index without an entry in the species
\* mapping is named "Species <index>", and the prediction of every index with
\* an entry carries the mapped name.
C6_PlaceholderOnlyWhenAbsent ==
    RankReturned =>
        \A k \in 1 .. Len(returned.predictions) :
            LET i == returned.predictions[k].index
            IN  returned.predictions[k].species
                  = IF i \in DOMAIN metadata.species_mapping
                    THEN metadata.species_mapping[i]
                    ELSE "Species " \o ToString(i)

\* C6 as amended: the prediction of an index whose entry is a non-empty name
\* carries that name; the prediction of an index with no entry, or with an
\* empty name, is named "Species <index>"; the ranking returns in every case.
C6_PlaceholderWhenAbsentOrEmpty ==
    RankEnded =>
        /\ RankReturned
        /\ \A k \in 1 .. Len(returned.predictions) :
              LET i == returned.predictions[k].index
              IN  returned.predictions[k].species
                    = IF i \in DOMAIN metadata.species_mapping
                         /\ metadata.species_mapping[i] # ""
                      THEN metadata.species_mapping[i]
                      ELSE "Species " \o ToString(i)

\* C6 witness: one list holds a mapped name, the placeholder of an index that
\* has no entry and the placeholder of an index whose entry is empty.
C6_Witness ==
    /\ RankReturned
    /\ \E a, b, c \in 1 .. Len(returned.predictions) :
         LET ia == returned.predictions[a].index
             ib == returned.predictions[b].index
             ic == returned.predictions[c].index
         IN  /\ ia \notin DOMAIN metadata.species_mapping
             /\ returned.predictions[a].species = "Species " \o ToString(ia)
             /\ ib \in DOMAIN metadata.species_mapping
             /\ metadata.species_mapping[ib] = ""
             /\ returned.predictions[b].species = "Species " \o ToString(ib)
             /\ ic \in DOMAIN metadata.species_mapping
             /\ metadata.species_mapping[ic] # ""
             /\ returned.predictions[c].species = metadata.species_mapping[ic]

\* C7: with the thresholds fixed, of two returned probabilities p <= q the
\* bucket of q is never a lower tier than the bucket of p.
C7_BucketMonotonic ==
    RankReturned =>
        \A i, j \in 1 .. Len(returned.predictions) :
            returned.predictions[i].probability <= returned.predictions[j].probability
                => Tier(returned.predictions[i].confidenceLevel)
                     <= Tier(returned.predictions[j].confidenceLevel)

\* C7 witness: one list with all three buckets the code assigns.
C7_Witness ==
    /\ RankReturned
    /\ { returned.predictions[k].confidenceLevel : k \in 1 .. Len(returned.predictions) }
         = {"high", "medium", "low"}

\* C9: topPrediction is the first element of the predictions list, and it is
\* an entry of the largest probability of the vector, of the smallest index
\* among those.
C9_TopPredictionIsFirstAndMax ==
    RankReturned =>
        /\ Len(returned.predictions) >= 1
        /\ returned.topPrediction = returned.predictions[1]
        /\ \A c \in 1 .. NumClasses :
              \/ predictions[c] < returned.topPrediction.probability
              \/ /\ predictions[c] = returned.topPrediction.probability
                 /\ returned.topPrediction.index <= c - 1

(***************************************************************************)
(* Claims of the detector in use, checked under Spec.                      *)
(***************************************************************************)
\* C8: a predict or preprocessImage call runs only if isLoaded is true at the
\* call, and a call made before the first successful loadModel, or after a
\* dispose with no successful loadModel since, throws "Model not loaded yet!"
\* and returns no result.
C8_NotLoadedThrows ==
    [][ \A image \in AllImages :
          /\ \A k \in ScriptTopK :
                Predict(image, k) =>
                    /\ pending' # pending => isLoaded
                    /\ ~successfulLoad =>
                          /\ returned' = Threw("predict", "Model not loaded yet!")
                          /\ pending' = pending
          /\ PreprocessImage(image) =>
                /\ returned'.status = "returned" => isLoaded
                /\ ~successfulLoad =>
                      returned' = Threw("preprocessImage", "Model not loaded yet!")
      ]_vars

\* A predict of a demo page raises an error in this step: before its await
\* (the guard of the detector, an image that cannot be read) or behind it.
PagePredictionRaises ==
    \/ \E image \in AllImages :
          \/ SimpleUpload(image) /\ modelLoaded /\ PredictGuard(image) # "ok"
          \/ ConvertUpload(image) /\ model # Null /\ image = BrokenImage
    \/ \E call \in BagToSet(pending) :
          \/ SimplePredictFail(call)
          \/ ConvertPredictFail(call)
          \/ SimplePredictReturn(call) /\ returned'.status = "threw"
          \/ ConvertPredictReturn(call) /\ returned'.status = "threw"

\* C10: when the prediction raises an error, the demo page renders no
\* prediction entry: the results panel shows the error message alone.
C10_FailedPredictionShowsOnlyError ==
    [][ PagePredictionRaises =>
            (results'.kind = "error" /\ results'.entries = <<>>) ]_vars

\* C10 witness: on the simple page a prediction has failed behind its await
\* while no image is awaited any more, and the panel shows the error.
C10_Witness ==
    /\ page = "simple"
    /\ modelLoaded
    /\ imageContainer # Null
    /\ imageContainer.src \in Images
    /\ returned = Threw("predict", "InferenceError")
    /\ results.kind = "error"
    /\ results.entries = <<>>
    /\ pending = EmptyBag

(***************************************************************************)
(* Claims of the ranking step called repeatedly, checked under RepeatSpec. *)
(***************************************************************************)
\* Two returned calls were given the same probability vector, species mapping,
\* thresholds and topK.
SameInputs(a, b) ==
    /\ a.data = b.data
    /\ a.metadata.species_mapping = b.metadata.species_mapping
    /\ a.metadata.confidence_thresholds = b.metadata.confidence_thresholds
    /\ a.topK = b.topK

MetadataParsed ==
    /\ loading # Null
    /\ loading.at = "metadata"
    /\ metadata' = ServedMetadata(loading.path)

ReportedSuccess ==
    /\ pc = "done"
    /\ returned = Returned("main", "completed successfully")

\* The document of the metadata.json under a directory.
MetadataOf(dir) == fs[dir \o "/metadata.json"].document

\* C16: when main of simple_model_optimizer has reported success, the output
\* directory web_optimized/current_model holds model.json, a copy of each
\* *.bin of the models directory, metadata.json, wildlife-detector.js,
\* demo.html and README.md.
C16_SuccessMeansAllFiles ==
    (script = "simple_model_optimizer" /\ ReportedSuccess)
        => /\ { OptimizedPath \o "/" \o name :
                  name \in {"model.json", "metadata.json", "wildlife-detector.js",
                            "demo.html", "README.md"} } \subseteq DOMAIN fs
           /\ \A w \in WeightFilesOf(fs) :
                /\ (OptimizedPath \o "/" \o w) \in DOMAIN fs
                /\ fs[OptimizedPath \o "/" \o w] = fs["models/" \o w]
           /\ fs[OptimizedPath \o "/model.json"] = fs["models/model.json"]
           /\ fs[OptimizedPath \o "/metadata.json"].kind = "json"

\* A reported success over a models directory with two weight files and a
\* metadata.json of its own.
C16_Witness ==
    /\ script = "simple_model_optimizer"
    /\ ReportedSuccess
    /\ WeightFilesOf(fs) = WeightNames
    /\ "models/metadata.json" \in DOMAIN fs
    /\ MetadataOf(OptimizedPath).species_mapping = MetadataOf("models").species_mapping

\* The metadata files the optimizers and the enhanced trainer write.
WrittenMetadataPaths ==
    IF script \in Optimizers THEN {OptimizedPath \o "/metadata.json"}
    ELSE IF script = "enhanced_wildlife_trainer"
         THEN {TimestampedMetadataPath, "models/metadata.json"}
    ELSE {}

WrittenThresholds ==
    { fs[path].document.confidence_thresholds :
        path \in { q \in WrittenMetadataPaths \cap DOMAIN fs : fs[q].kind = "json" } }

\* Each value lies in [0, 1] (0 to 100 hundredths), and high >= medium >= low.
WellFormedThresholds(t) ==
    /\ \A level \in DOMAIN t : t[level] >= 0 /\ t[level] <= 100
    /\ t.high_confidence >= t.medium_confidence
    /\ t.medium_confidence >= t.low_confidence

\* C12: the confidence_thresholds of every metadata.json that the optimizers
\* and the enhanced trainer have written (defaults, values passed through from
\* the input, values of the trainer) lie in [0, 1] and are ordered
\* high >= medium >= low.
C12_WrittenThresholdsWellFormed ==
    \A t \in WrittenThresholds : WellFormedThresholds(t)

\* C13: for every num_classes a WorldWildlifeTrainer is constructed with, the
\* species mapping of create_global_species_mapping has exactly the keys
\* 0 .. num_classes - 1.
C13_MappingKeysAreTheClasses ==
    (script = "enhanced_wildlife_trainer" /\ self # None)
        => DOMAIN self.species_mapping = 0 .. (self.num_classes - 1)

\* The metadata documents on disk that a script has written next to the model
\* it has built itself (the optimizers copy a model they have not built).
ModelMetadata ==
    IF script \in Optimizers THEN {}
    ELSE { fs[path].document :
             path \in { q \in DOMAIN fs : /\ fs[q].kind = "json"
                                          /\ "num_classes" \in DOMAIN fs[q].document } }

\* The number of species names a metadata document carries.
SpeciesCount(document) ==
    IF "species_mapping" \in DOMAIN document
    THEN Cardinality(DOMAIN document.species_mapping)
    ELSE Len(document.species)

\* C14: in every metadata file written next to a model, the number of species
\* names is the number of output classes of the model.
C14_SpeciesCountIsClassCount ==
    \A document \in ModelMetadata : SpeciesCount(document) = document.num_classes

\* C19: whenever the metadata.json of create_compatible_model declares
\* deployment.tensorflowjs_ready = true, a model.json lies in the directory of
\* that metadata.json, on the path of a successful conversion and on both
\* fallback paths.
C19_ReadyMeansModelJson ==
    script = "create_compatible_model"
        => \A dir \in {OptimizedPath, FrontendModelsDir} :
              ( /\ (dir \o "/metadata.json") \in DOMAIN fs
                /\ MetadataOf(dir).tensorflowjs_ready )
                  => (dir \o "/model.json") \in DOMAIN fs

\* C18: in main of create_simple_model the manual model.json and weights.bin
\* are written exactly when the converter step has failed, and on both paths
\* main ends with model.json, weights.bin and metadata.json in the output
\* directory.
C18_FallbackIffConverterFails ==
    (script = "create_simple_model" /\ pc = "done")
        => /\ ( /\ "models/model.json" \in DOMAIN fs
                /\ fs["models/model.json"] = ManualModelFile )
              <=> ~returned.value.success
           /\ {"models/model.json", "models/weights.bin", "models/metadata.json"}
                 \subseteq DOMAIN fs

\* A trainer of train_world_wildlife_enhanced that has been constructed.
WorldTrainerConstructed ==
    script = "train_world_wildlife_enhanced" /\ pc = "constructed"

\* C17: on a WorldWildlifeModelTrainer on which train_model has not been
\* called, evaluate_model and save_model_for_web raise the ValueError "Model
\* not trained yet. Call train_model() first." and change neither the disk
\* nor the trainer.
C17_UntrainedRaisesWithoutEffect ==
    [][ \A call \in {"evaluate_model", "save_model_for_web"} :
          ( /\ WorldTrainerConstructed
            /\ self.model = None
            /\ \/ call = "evaluate_model" /\ EvaluateModel
               \/ call = "save_model_for_web" /\ SaveModelForWeb )
              => /\ returned' = Threw(call, NotTrainedYet)
                 /\ fs' = fs
                 /\ self' = self ]_vars

\* save_model_for_web has raised on a trainer without model, with the
\* frontend directory in place and nothing else on disk.
C17_Witness ==
    /\ WorldTrainerConstructed
    /\ self.model = None
    /\ returned = Threw("save_model_for_web", NotTrainedYet)
    /\ DOMAIN fs = {FrontendModelsDir}

\* C20: when __init__ of WorldWildlifeModelTrainer is through,
\* wildlife_species has exactly num_classes entries; the padding loop is left
\* (it does not run forever); and every label that generate_synthetic_data
\* makes is the index of an entry of wildlife_species and of a class.
C20_SpeciesPaddedToClasses ==
    /\ [](WorldTrainerConstructed =>
            /\ Len(self.wildlife_species) = self.num_classes
            /\ \A samples_per_class \in 1 .. MaxSamples :
                 LET y == Labels(self.wildlife_species, samples_per_class)
                 IN  \A i \in 1 .. Len(y) :
                        /\ y[i] + 1 \in 1 .. Len(self.wildlife_species)
                        /\ y[i] \in 0 .. (self.num_classes - 1)
            /\ returned.op = "generate_synthetic_data" => returned.status = "returned")
    /\ ((script = "train_world_wildlife_enhanced" /\ pc = "padding")
            ~> WorldTrainerConstructed)

\* A constructed trainer whose generate_synthetic_data has returned labels up
\* to the last class, the names behind the database being padding.
C20_Witness ==
    /\ WorldTrainerConstructed
    /\ returned.op = "generate_synthetic_data"
    /\ returned.status = "returned"
    /\ Len(returned.value.y) = MaxSamples * WorldClasses
    /\ returned.value.y[Len(returned.value.y)] = WorldClasses - 1
    /\ self.wildlife_species[Len(WildlifeSpeciesDatabase) + 1]
          = "Wildlife_Species_" \o ToString(Len(WildlifeSpeciesDatabase))

(***************************************************************************)
(* C21: the fine-tuning phase of train_model.                              *)
(***************************************************************************)
\* The model was made by create_enhanced_model(use_efficientnet=True).
BuiltWithBackbone(trainedModel) ==
    trainedModel.layers[1].name = EfficientNetBackbone.name

EnhancedTrained ==
    /\ script = "enhanced_wildlife_trainer"
    /\ self # None
    /\ self.history # None

\* C21: when train_model of WorldWildlifeTrainer has run, its second
\* (fine-tuning) phase has run only on a model built with the EfficientNet
\* backbone; on the custom CNN the history holds the initial phase alone and
\* the first layer is as create_enhanced_model made it.
C21_FineTuningOnlyWithBackbone ==
    EnhancedTrained =>
        IF BuiltWithBackbone(self.model)
        THEN self.history.phases = <<"initial", "fine_tuning">>
        ELSE /\ self.history.phases = <<"initial">>
             /\ self.model.layers[1] = FirstConvolution

(***************************************************************************)
(* C22: optimize_existing_model without a model.json.                      *)
(***************************************************************************)
\* C22: a call of optimize_existing_model, of SimpleModelOptimizer and of
\* ModelConverter, on a models directory without model.json returns False
\* and leaves the disk as it was; web_optimized/current_model does not exist
\* at any time of such a run.
C22_NoModelNoOutput ==
    /\ [][ ( /\ script \in Optimizers
             /\ "models/model.json" \notin DOMAIN fs
             /\ OptimizeExistingModel )
            => /\ returned' = Returned("optimize_existing_model", FALSE)
               /\ fs' = fs ]_vars
    /\ []( (script \in Optimizers /\ "models/model.json" \notin DOMAIN fs)
            => (DOMAIN fs) \cap {OptimizedPath, OptimizedPath \o "/metadata.json",
                                 OptimizedPath \o "/demo.html",
                                 OptimizedPath \o "/README.md"} = {} )

\* optimize_existing_model of ModelConverter has returned False on a models
\* directory that holds weights and a metadata.json but no model.json.
C22_Witness ==
    /\ script = "convert_and_optimize"
    /\ pc = "optimized"
    /\ returned = Returned("optimize_existing_model", FALSE)
    /\ DOMAIN fs = {"models", "models/weights.bin", "models/metadata.json", OutputDir}

(***************************************************************************)
(* C23: a loadModel that fails.                                            *)
(***************************************************************************)
\* The call a script made last was a loadModel, and it returned false.
LoadModelReturnedFalse ==
    /\ page = "none"
    /\ loading = Null
    /\ returned = Returned("loadModel", FALSE)

\* this.model and this.metadata come from one directory.
OneLoad ==
    (model # Null /\ metadata # Null) => metadata = ServedMetadata(model.path)

\* C23: when the loadModel a script called last has returned false, isLoaded
\* is false, and the model and the metadata of the detector are not those of
\* two different loads.
C23_FailedLoadLeavesNothingUsable ==
    LoadModelReturnedFalse => (~isLoaded /\ OneLoad)

(***************************************************************************)
(* C24: predictions of the demo page that overlap.                         *)
(***************************************************************************)
\* The list the page of simple_model_optimizer shows for an image.
ListOf(image) ==
    ResultsPanel(PredictOutcome(ModelOutput(image, model.classes), metadata,
                                TopKDefault))

\* C24: on the demo page, when every prediction that was started has
\* finished and the results panel shows a list, the list is that of the image
\* on display (the one uploaded last), in whatever order the predictions of
\* two images uploaded one behind the other have finished.
C24_PanelShowsDisplayedImage ==
    ( /\ page = "simple"
      /\ pending = EmptyBag
      /\ imageContainer # Null
      /\ imageContainer.src \in Images
      /\ results.kind = "results" )
        => results = ListOf(imageContainer.src)

====
